---- MODULE Spec2Model ----
(***************************************************************************)
(* serve.py: a socketserver.TCPServer on port 8000 whose request handler,  *)
(* CORSHTTPRequestHandler, is http.server.SimpleHTTPRequestHandler with    *)
(* end_headers overridden (three CORS headers) and do_OPTIONS added.       *)
(*                                                                         *)
(* The handler is modelled as operators over a handler record h (the       *)
(* fields of the Python instance); the process, the listening socket and   *)
(* the clients are the state machine.                                      *)
(***************************************************************************)
EXTENDS Integers, Sequences, FiniteSets, TLC

\* Number of client endpoints that may hold a connection at the same time.
MaxClients == 2

Clients == 1..MaxClients

(***************************************************************************)
(* The environment: directories and files.  A path is the sequence of its  *)
(* components below "/".                                                    *)
(***************************************************************************)
\* os.path.dirname(os.path.abspath(__file__))
ScriptDir == <<"srv">>

\* The directories the interpreter may be launched from.
LaunchDirs == {<<>>, <<"srv">>, <<"home">>}

FileSystem ==
  { [path |-> <<>>,                          kind |-> "dir",  readable |-> TRUE,  data |-> "dir:/"],
    [path |-> <<"etc">>,                     kind |-> "dir",  readable |-> TRUE,  data |-> "dir:/etc"],
    [path |-> <<"etc", "passwd">>,           kind |-> "file", readable |-> TRUE,  data |-> "file:/etc/passwd"],
    [path |-> <<"a.txt">>,                   kind |-> "file", readable |-> TRUE,  data |-> "file:/a.txt"],
    [path |-> <<"home">>,                    kind |-> "dir",  readable |-> TRUE,  data |-> "dir:/home"],
    [path |-> <<"srv">>,                     kind |-> "dir",  readable |-> TRUE,  data |-> "dir:/srv"],
    [path |-> <<"srv", "serve.py">>,         kind |-> "file", readable |-> TRUE,  data |-> "file:/srv/serve.py"],
    [path |-> <<"srv", "a.txt">>,            kind |-> "file", readable |-> TRUE,  data |-> "file:/srv/a.txt"],
    [path |-> <<"srv", "priv.txt">>,         kind |-> "file", readable |-> FALSE, data |-> "file:/srv/priv.txt"],
    [path |-> <<"srv", "sub">>,              kind |-> "dir",  readable |-> TRUE,  data |-> "dir:/srv/sub"],
    [path |-> <<"srv", "sub", "f.txt">>,     kind |-> "file", readable |-> TRUE,  data |-> "file:/srv/sub/f.txt"],
    [path |-> <<"srv", "idx">>,              kind |-> "dir",  readable |-> TRUE,  data |-> "dir:/srv/idx"],
    [path |-> <<"srv", "idx", "index.html">>, kind |-> "file", readable |-> TRUE, data |-> "file:/srv/idx/index.html"] }

\* posixpath.normpath of an absolute path: "." is dropped, ".." removes the
\* component before it and is dropped at the root.  This is also how the
\* kernel resolves the components of an absolute path.
RECURSIVE normpath_abs(_, _)
normpath_abs(segs, acc) ==
  IF segs = <<>> THEN acc
  ELSE LET w == Head(segs) IN
       normpath_abs(Tail(segs),
         IF w = "." THEN acc
         ELSE IF w = ".." THEN (IF acc = <<>> THEN acc ELSE SubSeq(acc, 1, Len(acc) - 1))
         ELSE Append(acc, w))

\* posixpath.normpath of a relative path: a ".." with nothing before it to
\* remove is kept.
RECURSIVE normpath_rel(_, _)
normpath_rel(segs, acc) ==
  IF segs = <<>> THEN acc
  ELSE LET w == Head(segs) IN
       normpath_rel(Tail(segs),
         IF w = "." THEN acc
         ELSE IF w = ".." THEN (IF acc = <<>> \/ acc[Len(acc)] = ".." THEN Append(acc, w)
                                ELSE SubSeq(acc, 1, Len(acc) - 1))
         ELSE Append(acc, w))

Exists(p) == \E n \in FileSystem : n.path = normpath_abs(p, <<>>)
Node(p) == CHOOSE n \in FileSystem : n.path = normpath_abs(p, <<>>)
isdir(p) == Exists(p) /\ Node(p).kind = "dir"
isfile(p) == Exists(p) /\ Node(p).kind = "file"
\* open(path, 'rb') succeeds
CanOpen(p) == isfile(p) /\ Node(p).readable

IsPrefix(s, t) == Len(s) <= Len(t) /\ SubSeq(t, 1, Len(s)) = s

(***************************************************************************)
(* Requests.  A request line is "method path [version]"; version "" is a   *)
(* request line of two words (the HTTP/0.9 form).  ims says that the       *)
(* request carries an If-Modified-Since header that is well formed, not    *)
(* earlier than the file's modification time, and no If-None-Match.        *)
(***************************************************************************)
Methods == {"GET", "HEAD", "POST", "OPTIONS", "PUT"}
Versions == {"", "HTTP/1.0", "HTTP/1.1", "HTTP/2.0", "HTCPCP/1.0"}

ReqPaths ==
  { [abs |-> TRUE,  segs |-> <<>>,                           slash |-> TRUE],
    [abs |-> TRUE,  segs |-> <<"a.txt">>,                    slash |-> FALSE],
    [abs |-> TRUE,  segs |-> <<"a.txt">>,                    slash |-> TRUE],
    [abs |-> TRUE,  segs |-> <<"missing.xyz">>,              slash |-> FALSE],
    [abs |-> TRUE,  segs |-> <<"priv.txt">>,                 slash |-> FALSE],
    [abs |-> TRUE,  segs |-> <<"sub">>,                      slash |-> FALSE],
    [abs |-> TRUE,  segs |-> <<"sub">>,                      slash |-> TRUE],
    [abs |-> TRUE,  segs |-> <<"sub", "f.txt">>,             slash |-> FALSE],
    [abs |-> TRUE,  segs |-> <<"idx">>,                      slash |-> TRUE],
    [abs |-> TRUE,  segs |-> <<"sub", "..", "a.txt">>,       slash |-> FALSE],
    [abs |-> TRUE,  segs |-> <<"..", "..", "etc", "passwd">>, slash |-> FALSE],
    [abs |-> TRUE,  segs |-> <<"..", "a.txt">>,              slash |-> FALSE],
    [abs |-> FALSE, segs |-> <<"..", "etc", "passwd">>,      slash |-> FALSE],
    [abs |-> FALSE, segs |-> <<"..", "a.txt">>,              slash |-> FALSE] }

Requests == [method : Methods, path : ReqPaths, version : Versions, ims : BOOLEAN]

NoRequest == [method |-> "", path |-> [abs |-> TRUE, segs |-> <<>>, slash |-> TRUE],
              version |-> "", ims |-> FALSE]

(***************************************************************************)
(* The handler instance.  wfile is what has been written to the            *)
(* connection, buf is _headers_buffer, code the status given to            *)
(* send_response (logged by log_request), fs_access whether the file       *)
(* system was consulted.                                                   *)
(***************************************************************************)
Item(t, k, v) == [t |-> t, k |-> k, v |-> v]
Blank == Item("blank", "", "")

NoHandler ==
  [command |-> "", request_version |-> "", path |-> NoRequest.path, ims |-> FALSE,
   directory |-> <<>>, buf |-> <<>>, wfile |-> <<>>, code |-> 0, fs_access |-> FALSE]

\* BaseHTTPRequestHandler.protocol_version
protocol_version == "HTTP/1.0"

CodeStr(c) ==
  CASE c = 200 -> "200" [] c = 301 -> "301" [] c = 304 -> "304" [] c = 400 -> "400"
    [] c = 404 -> "404" [] c = 501 -> "501" [] c = 505 -> "505" [] OTHER -> "???"

send_response_only(h, code) ==
  IF h.request_version # "HTTP/0.9"
  THEN [h EXCEPT !.buf = Append(@, Item("status", protocol_version, CodeStr(code)))]
  ELSE h

send_header(h, keyword, value) ==
  IF h.request_version # "HTTP/0.9"
  THEN [h EXCEPT !.buf = Append(@, Item("header", keyword, value))]
  ELSE h

send_response(h, code) ==
  send_header(send_header(send_response_only([h EXCEPT !.code = code], code),
                          "Server", "SimpleHTTP"), "Date", "now")

flush_headers(h) == [h EXCEPT !.wfile = @ \o h.buf, !.buf = <<>>]

\* BaseHTTPRequestHandler.end_headers (super().end_headers())
base_end_headers(h) ==
  IF h.request_version # "HTTP/0.9"
  THEN flush_headers([h EXCEPT !.buf = Append(@, Blank)])
  ELSE h


(***************************************************************************)
(* CORSHTTPRequestHandler                                                  *)
(***************************************************************************)
\* The hook with one send_header line lost.
end_headers_missing(h) ==
  base_end_headers(send_header(send_header(h,
      "Access-Control-Allow-Origin", "*"),
      "Access-Control-Allow-Methods", "GET, POST, OPTIONS"))

\* The hook with two send_header lines swapped.
end_headers_swapped(h) ==
  base_end_headers(send_header(send_header(send_header(h,
      "Access-Control-Allow-Methods", "GET, POST, OPTIONS"),
      "Access-Control-Allow-Origin", "*"),
      "Access-Control-Allow-Headers", "Content-Type"))

end_headers(h) ==
  base_end_headers(send_header(send_header(send_header(h,
      "Access-Control-Allow-Origin", "*"),
      "Access-Control-Allow-Methods", "GET, POST, OPTIONS"),
      "Access-Control-Allow-Headers", "Content-Type"))

\* BaseHTTPRequestHandler.send_error: every code used here is >= 200 and
\* none of 204, 205, 304, so the HTML body is always built.
send_error(h, code) ==
  LET h1 == send_header(send_response(h, code), "Connection", "close")
      h2 == send_header(send_header(h1, "Content-Type", "text/html;charset=utf-8"),
                        "Content-Length", "len(body)")
      h3 == end_headers(h2)
  IN  IF h.command # "HEAD"
      THEN [h3 EXCEPT !.wfile = Append(@, Item("body", "error", CodeStr(code)))]
      ELSE h3

\* translate_path that joins the request path to the directory as it is.
translate_path_join(h, path) ==
  [segs |-> h.directory \o path.segs, slash |-> path.slash]

\* SimpleHTTPRequestHandler.translate_path
translate_path(h, path) ==
  LET norm  == IF path.abs THEN normpath_abs(path.segs, <<>>)
                           ELSE normpath_rel(path.segs, <<>>)
      words == SelectSeq(norm, LAMBDA w : w \notin {".", ".."})
  IN  [segs |-> h.directory \o words, slash |-> path.slash]

NoFile == Item("none", "", "")

\* SimpleHTTPRequestHandler.list_directory (os.listdir succeeds on every
\* directory of FileSystem)
list_directory(h, p) ==
  LET h1 == send_header(send_header(send_response(h, 200),
                "Content-type", "text/html; charset=utf-8"), "Content-Length", "len(encoded)")
  IN  [h |-> end_headers(h1), f |-> Item("body", "listing", Node(p).data)]

\* SimpleHTTPRequestHandler.send_head
send_head(h0) ==
  LET h    == [h0 EXCEPT !.fs_access = TRUE]
      path == translate_path(h, h.path)
      index == IF isfile(path.segs \o <<"index.html">>) THEN <<"index.html">>
               ELSE IF isfile(path.segs \o <<"index.htm">>) THEN <<"index.htm">>
               ELSE <<>>
      serve(p) ==
        IF p.slash THEN [h |-> send_error(h, 404), f |-> NoFile]
        ELSE IF ~CanOpen(p.segs) THEN [h |-> send_error(h, 404), f |-> NoFile]
        ELSE IF h.ims THEN [h |-> end_headers(send_response(h, 304)), f |-> NoFile]
        ELSE LET h1 == send_header(send_header(send_header(send_response(h, 200),
                          "Content-type", "guess_type(path)"),
                          "Content-Length", "st_size"), "Last-Modified", "st_mtime")
             IN  [h |-> end_headers(h1), f |-> Item("body", "file", Node(p.segs).data)]
  IN  IF isdir(path.segs)
      THEN IF ~h.path.slash
           THEN [h |-> end_headers(send_header(send_header(send_response(h, 301),
                          "Location", "path/"), "Content-Length", "0")),
                 f |-> NoFile]
           ELSE IF index # <<>>
                THEN serve([segs |-> path.segs \o index, slash |-> FALSE])
                ELSE list_directory(h, path.segs)
      ELSE serve(path)

\* SimpleHTTPRequestHandler.do_GET: copyfile(f, self.wfile)
do_GET(h) ==
  LET r == send_head(h)
  IN  IF r.f # NoFile THEN [r.h EXCEPT !.wfile = Append(@, r.f)] ELSE r.h

\* SimpleHTTPRequestHandler.do_HEAD
do_HEAD(h) == send_head(h).h

\* do_OPTIONS left to the file-serving code.
do_OPTIONS_serving(h) == do_GET(h)

\* do_OPTIONS that also sends the CORS headers itself.
do_OPTIONS_dup(h) ==
  end_headers(send_header(send_header(send_header(send_response(h, 200),
      "Access-Control-Allow-Origin", "*"),
      "Access-Control-Allow-Methods", "GET, POST, OPTIONS"),
      "Access-Control-Allow-Headers", "Content-Type"))

do_OPTIONS(h) == end_headers(send_response(h, 200))

\* The major and minor number of a well-formed version word.
VersionNumber(v) ==
  CASE v = "HTTP/1.0" -> <<1, 0>> [] v = "HTTP/1.1" -> <<1, 1>> [] v = "HTTP/2.0" -> <<2, 0>>

\* version.startswith('HTTP/') and two numeric components
WellFormedVersion(v) == v \in {"HTTP/1.0", "HTTP/1.1", "HTTP/2.0"}

\* BaseHTTPRequestHandler.parse_request; the request line has three words
\* when req.version # "" and two otherwise.
parse_request(h0, req) ==
  LET h == [h0 EXCEPT !.command = "", !.request_version = "HTTP/0.9"]
      accept(hv) == [ok |-> TRUE,
                     h |-> [hv EXCEPT !.command = req.method, !.path = req.path,
                                      !.ims = req.ims]]
  IN  IF req.version # ""
      THEN IF ~WellFormedVersion(req.version)
           THEN [ok |-> FALSE, h |-> send_error(h, 400)]
           ELSE IF VersionNumber(req.version)[1] >= 2
           THEN [ok |-> FALSE, h |-> send_error(h, 505)]
           ELSE accept([h EXCEPT !.request_version = req.version])
      ELSE IF req.method # "GET"
           THEN [ok |-> FALSE, h |-> send_error(h, 400)]
           ELSE accept(h)

\* A handler class that also has do_POST, serving files.
dispatch_post(h) ==
  CASE h.command \in {"GET", "POST"} -> do_GET(h)
    [] h.command = "HEAD"    -> do_HEAD(h)
    [] h.command = "OPTIONS" -> do_OPTIONS(h)
    [] OTHER                 -> send_error(h, 501)

\* 'do_' + self.command looked up on CORSHTTPRequestHandler: do_GET and
\* do_HEAD are inherited, do_OPTIONS is defined, nothing else exists.
dispatch(h) ==
  CASE h.command = "GET"     -> do_GET(h)
    [] h.command = "HEAD"    -> do_HEAD(h)
    [] h.command = "OPTIONS" -> do_OPTIONS(h)
    [] OTHER                 -> send_error(h, 501)

\* BaseHTTPRequestHandler.handle_one_request on a handler constructed with
\* directory = os.getcwd()
handle_one_request(dir, req) ==
  LET h0 == [NoHandler EXCEPT !.directory = dir]
      p  == parse_request(h0, req)
  IN  IF p.ok THEN dispatch(p.h) ELSE p.h


(***************************************************************************)
(* The process (__main__) and its clients.                                 *)
(*   pc       position of the main program                                 *)
(*   cwd      the process working directory                                *)
(*   chdirs   number of os.chdir calls made                                *)
(*   portFree whether port 8000 can be bound                               *)
(*   cl       each client's end of its connection                          *)
(*   backlog  connections completed by the kernel, not yet accepted        *)
(*   handling connections accepted and not yet shut down                   *)
(*   h, req   handler instance and request of the connection last handled  *)
(*   outcome  how that handling ended                                      *)
(*   failed   whether some request has failed so far                       *)
(***************************************************************************)
VARIABLES pc, cwd, chdirs, portFree, cl, backlog, handling, h, req, outcome, failed

vars == <<pc, cwd, chdirs, portFree, cl, backlog, handling, h, req, outcome, failed>>

Init ==
  /\ pc = "start"
  /\ cwd \in LaunchDirs
  /\ chdirs = 0
  /\ portFree \in BOOLEAN
  /\ cl = [c \in Clients |-> "idle"]
  /\ backlog = <<>>
  /\ handling = {}
  /\ h = NoHandler
  /\ req = NoRequest
  /\ outcome = "none"
  /\ failed = FALSE

\* The program without its os.chdir line.
ChdirSkipped ==
  /\ pc = "start"
  /\ pc' = "chdir_done"
  /\ UNCHANGED <<cwd, chdirs, portFree, cl, backlog, handling, h, req, outcome, failed>>

\* os.chdir(os.path.dirname(os.path.abspath(__file__)))
Chdir ==
  /\ pc = "start"
  /\ cwd' = ScriptDir
  /\ chdirs' = chdirs + 1
  /\ pc' = "chdir_done"
  /\ UNCHANGED <<portFree, cl, backlog, handling, h, req, outcome, failed>>

\* socketserver.TCPServer(("", PORT), ...): server_bind and server_activate,
\* then serve_forever; OSError from bind leaves the program.
Bind ==
  /\ pc = "chdir_done"
  /\ pc' = IF portFree THEN "serving" ELSE "exited"
  /\ UNCHANGED <<cwd, chdirs, portFree, cl, backlog, handling, h, req, outcome, failed>>

\* A client connects to the listening socket.
Connect(c) ==
  /\ pc = "serving"
  /\ cl[c] = "idle"
  /\ cl' = [cl EXCEPT ![c] = "open"]
  /\ backlog' = Append(backlog, c)
  /\ UNCHANGED <<pc, cwd, chdirs, portFree, handling, h, req, outcome, failed>>

\* A connected client sends its request.
SendRequest(c) ==
  /\ cl[c] = "open"
  /\ cl' = [cl EXCEPT ![c] = "sent"]
  /\ UNCHANGED <<pc, cwd, chdirs, portFree, backlog, handling, h, req, outcome, failed>>

\* A connected client goes silent: it never sends and never closes.
Stall(c) ==
  /\ cl[c] = "open"
  /\ cl' = [cl EXCEPT ![c] = "stalled"]
  /\ UNCHANGED <<pc, cwd, chdirs, portFree, backlog, handling, h, req, outcome, failed>>

\* A client closes its end, before sending or before reading the response.
Disconnect(c) ==
  /\ cl[c] \in {"open", "sent"}
  /\ cl' = [cl EXCEPT ![c] = IF cl[c] = "open" THEN "closed" ELSE "sent_closed"]
  /\ UNCHANGED <<pc, cwd, chdirs, portFree, backlog, handling, h, req, outcome, failed>>

\* A server that starts a thread per connection (ThreadingMixIn).
AcceptThreading ==
  /\ pc = "serving"
  /\ backlog # <<>>
  /\ handling' = handling \cup {Head(backlog)}
  /\ backlog' = Tail(backlog)
  /\ h' = NoHandler
  /\ req' = NoRequest
  /\ outcome' = "none"
  /\ UNCHANGED <<pc, cwd, chdirs, portFree, cl, failed>>

\* serve_forever -> _handle_request_noblock -> get_request: the next
\* connection is accepted when the previous process_request has returned.
Accept ==
  /\ pc = "serving"
  /\ handling = {}
  /\ backlog # <<>>
  /\ handling' = {Head(backlog)}
  /\ backlog' = Tail(backlog)
  /\ h' = NoHandler
  /\ req' = NoRequest
  /\ outcome' = "none"
  /\ UNCHANGED <<pc, cwd, chdirs, portFree, cl, failed>>

\* process_request -> finish_request -> CORSHTTPRequestHandler(...) ->
\* handle -> handle_one_request, then shutdown_request.  rfile.readline
\* blocks (no timeout is set) until the client has sent or closed.  What is
\* written to a connection the client has closed is lost, and the exception
\* it may raise is caught by handle_error; an empty read ends the handler
\* without a response.
Process(c) ==
  /\ c \in handling
  /\ \/ /\ cl[c] = "sent"
        /\ \E r \in Requests :
             /\ req' = r
             /\ h' = handle_one_request(cwd, r)
             /\ outcome' = "answered"
             /\ failed' = (failed \/ h'.code >= 400)
     \/ /\ cl[c] = "sent_closed"
        /\ \E r \in Requests :
             /\ req' = r
             /\ h' = handle_one_request(cwd, r)
             /\ outcome' = "error"
             /\ failed' = TRUE
     \/ /\ cl[c] = "closed"
        /\ req' = NoRequest
        /\ h' = [NoHandler EXCEPT !.directory = cwd]
        /\ outcome' = "eof"
        /\ failed' = TRUE
  /\ handling' = handling \ {c}
  /\ cl' = [cl EXCEPT ![c] = "idle"]
  /\ UNCHANGED <<pc, cwd, chdirs, portFree, backlog>>

Next ==
  \/ Chdir
  \/ Bind
  \/ \E c \in Clients : Connect(c)
  \/ \E c \in Clients : SendRequest(c)
  \/ \E c \in Clients : Stall(c)
  \/ \E c \in Clients : Disconnect(c)
  \/ Accept
  \/ \E c \in Clients : Process(c)

Spec == Init /\ [][Next]_vars


(***************************************************************************)
(* Vocabulary of the properties.                                           *)
(***************************************************************************)
CorsOrigin  == Item("header", "Access-Control-Allow-Origin", "*")
CorsMethods == Item("header", "Access-Control-Allow-Methods", "GET, POST, OPTIONS")
CorsHeaders == Item("header", "Access-Control-Allow-Headers", "Content-Type")
CorsNames   == {CorsOrigin.k, CorsMethods.k, CorsHeaders.k}

\* The server wrote a response to a client that was there to read it.
Answered == outcome = "answered"

\* The request line ends in HTTP/1.0 or HTTP/1.1.
Http1 == req.version \in {"HTTP/1.0", "HTTP/1.1"}

Has(w, it) == \E i \in 1..Len(w) : w[i] = it
Count(w, name) == Cardinality({i \in 1..Len(w) : w[i].t = "header" /\ w[i].k = name})
HasCors(w) == Has(w, CorsOrigin) /\ Has(w, CorsMethods) /\ Has(w, CorsHeaders)
Bodies(w) == SelectSeq(w, LAMBDA i : i.t = "body")
StatusLine(w, code) == Len(w) > 0 /\ w[1] = Item("status", "HTTP/1.0", code)

\* The request path, resolved naively below the script directory by the
\* operating system, leaves the script directory.
Escapes(path) == ~IsPrefix(ScriptDir, normpath_abs(ScriptDir \o path.segs, <<>>))

\* The file or directory a request path names below the served root.
Target(path) == translate_path([directory |-> ScriptDir], path)

UnderRoot(data) == \E n \in FileSystem : n.data = data /\ IsPrefix(ScriptDir, n.path)

(***************************************************************************)
(* C1                                                                      *)
(***************************************************************************)
\* C1 (as stated): every response the server gives, whatever the method and
\* the status, has the three CORS headers.
C1_AllResponsesHaveCors == Answered => HasCors(h.wfile)

\* C1 (amended): every response to a request line that ends in HTTP/1.0 or
\* HTTP/1.1 has the three CORS headers, whatever the method and the status;
\* a GET of the missing path is answered 404 with all three.
C1_Http1ResponsesHaveCors ==
  (Answered /\ Http1) =>
     /\ HasCors(h.wfile)
     /\ (req.method = "GET" /\ req.path.segs = <<"missing.xyz">>) =>
           (h.code = 404 /\ StatusLine(h.wfile, "404"))

C1_Witness ==
  /\ Answered /\ req.version = "HTTP/1.1" /\ req.method = "GET"
  /\ req.path.segs = <<"missing.xyz">>
  /\ h.code = 404 /\ HasCors(h.wfile)

(***************************************************************************)
(* C2                                                                      *)
(***************************************************************************)
OptionsReply ==
  /\ h.code = 200 /\ StatusLine(h.wfile, "200")
  /\ Bodies(h.wfile) = <<>>
  /\ HasCors(h.wfile)
  /\ ~h.fs_access

\* C2 (as stated): an OPTIONS request for any path is answered 200 with an
\* empty body and the CORS headers, without consulting the file system.
C2_OptionsAlways200 == (Answered /\ req.method = "OPTIONS") => OptionsReply

\* C2 (amended): an OPTIONS request whose request line ends in HTTP/1.0 or
\* HTTP/1.1 is answered 200 with an empty body and the CORS headers,
\* whatever its path, without consulting the file system.
C2_Http1Options200 == (Answered /\ Http1 /\ req.method = "OPTIONS") => OptionsReply

C2_Witness ==
  /\ Answered /\ Http1 /\ req.method = "OPTIONS"
  /\ req.path.segs = <<"missing.xyz">> /\ OptionsReply

(***************************************************************************)
(* C3                                                                      *)
(***************************************************************************)
\* What the inherited file serving answers for the request: a readable
\* regular file gives 200 and (for GET) its contents, a directory named with
\* a trailing slash and holding no index file gives 200 and (for GET) its
\* listing, a path that names nothing gives 404.
FileServed ==
  LET t == Target(req.path) IN
  /\ h.fs_access
  /\ (CanOpen(t.segs) /\ ~t.slash /\ ~req.ims) =>
        /\ h.code = 200
        /\ req.method = "GET" => Bodies(h.wfile) = <<Item("body", "file", Node(t.segs).data)>>
  /\ (isdir(t.segs) /\ t.slash /\ ~isfile(t.segs \o <<"index.html">>)
                               /\ ~isfile(t.segs \o <<"index.htm">>)) =>
        /\ h.code = 200
        /\ req.method = "GET" => Bodies(h.wfile) = <<Item("body", "listing", Node(t.segs).data)>>
  /\ ~Exists(t.segs) => h.code = 404

\* The remaining cases of the inherited file serving: a directory named
\* without a trailing slash is redirected, a directory holding index.html is
\* answered with that file, a regular file named with a trailing slash or not
\* readable gives 404, a satisfied If-Modified-Since gives 304.
FileServedOtherwise ==
  LET t == Target(req.path)
      index == t.segs \o <<"index.html">>
  IN
  /\ (isdir(t.segs) /\ ~t.slash) => (h.code = 301 /\ Bodies(h.wfile) = <<>>)
  /\ (isdir(t.segs) /\ t.slash /\ CanOpen(index) /\ ~req.ims) =>
        /\ h.code = 200
        /\ req.method = "GET" => Bodies(h.wfile) = <<Item("body", "file", Node(index).data)>>
  /\ (isfile(t.segs) /\ (t.slash \/ ~CanOpen(t.segs))) => h.code = 404
  /\ (CanOpen(t.segs) /\ ~t.slash /\ req.ims) => (h.code = 304 /\ Bodies(h.wfile) = <<>>)

\* The request line was accepted by parse_request.
Parsed == outcome \in {"answered", "error"} /\ h.command # ""

C4_TraversalRejected ==
  (Parsed /\ Http1 /\ req.path.abs /\ req.method \in {"GET", "HEAD"} /\ Escapes(req.path)) =>
     h.code \in {403, 404}

\* C4 (amended): whatever the request path, every file content and every
\* directory listing the server sends is that of a file or directory below
\* the served root; a path with parent-directory segments pointing outside
\* the root is answered as the path that is left below the root once those
\* segments are dropped (200 when that file exists), not rejected.
C4_NothingOutsideRoot ==
  /\ \A i \in 1..Len(h.wfile) :
        (h.wfile[i].t = "body" /\ h.wfile[i].k \in {"file", "listing"}) => UnderRoot(h.wfile[i].v)
  /\ (Parsed /\ req.method \in {"GET", "HEAD"} /\ Escapes(req.path)) =>
        h.code \in {200, 301, 304, 404}

C4_Witness ==
  /\ Answered /\ Http1 /\ req.method = "GET" /\ Escapes(req.path)
  /\ req.path.abs /\ req.path.segs = <<"..", "a.txt">>
  /\ h.code = 200 /\ Bodies(h.wfile) = <<Item("body", "file", "file:/srv/a.txt")>>


(***************************************************************************)
(* C5                                                                      *)
(***************************************************************************)
Names(w) == [i \in 1..Len(w) |-> w[i].k]

\* The headers the file-serving and error code sets, by kind of response.
BaseHeaders ==
  IF h.code >= 400 THEN {<<"Server", "Date", "Connection", "Content-Type", "Content-Length">>}
  ELSE IF h.code = 301 THEN {<<"Server", "Date", "Location", "Content-Length">>}
  ELSE IF h.code = 304 \/ h.command = "OPTIONS" THEN {<<"Server", "Date">>}
  ELSE IF isdir(Target(req.path).segs) /\ ~isfile(Target(req.path).segs \o <<"index.html">>)
       THEN {<<"Server", "Date", "Content-type", "Content-Length">>}
  ELSE {<<"Server", "Date", "Content-type", "Content-Length", "Last-Modified">>}

\* The header block is: status line, the base headers, the three CORS
\* headers in the order Origin, Methods, Headers, the blank line; only the
\* body may follow.
CorsLast ==
  LET w == h.wfile IN
  \E b \in 1..Len(w) :
     /\ w[b] = Blank
     /\ b >= 5
     /\ SubSeq(w, b - 3, b - 1) = <<CorsOrigin, CorsMethods, CorsHeaders>>
     /\ w[1].t = "status"
     /\ \A i \in 2..(b - 4) : w[i].t = "header" /\ w[i].k \notin CorsNames
     /\ Names(SubSeq(w, 2, b - 4)) \in BaseHeaders
     /\ \A i \in (b + 1)..Len(w) : w[i].t = "body"

CorsOnce ==
  /\ \A n \in CorsNames : Count(h.wfile, n) = 1
  /\ Cardinality({i \in 1..Len(h.wfile) : h.wfile[i] = Blank}) = 1
  /\ h.buf = <<>>

C6_CwdFixedBeforeBind ==
  /\ (pc \in {"serving", "exited"} \/ backlog # <<>> \/ handling # {} \/ outcome # "none") =>
        (cwd = ScriptDir /\ chdirs = 1)
  /\ outcome # "none" => h.directory = ScriptDir

C6_Witness ==
  /\ pc = "serving" /\ backlog # <<>>
  /\ Answered /\ h.fs_access /\ h.directory = ScriptDir
  /\ cwd = ScriptDir /\ chdirs = 1

(***************************************************************************)
(* C7                                                                      *)
(***************************************************************************)
\* C7: at most one connection is being handled in any state: no connection
\* is accepted while another is still being handled.
C7_OneAtATime == Cardinality(handling) <= 1

C7_Witness ==
  /\ Cardinality(handling) = 1 /\ backlog # <<>>
  /\ cl[Head(backlog)] = "sent"
  /\ \E a \in handling : cl[a] = "sent"

(***************************************************************************)
(* C8                                                                      *)
(***************************************************************************)
Queued(c) == \E i \in 1..Len(backlog) : backlog[i] = c

\* C8: a client that has sent its request is never kept waiting, unaccepted,
\* behind the connection of a client that has not sent its own request (a
\* slow or stalled client does not delay another client).
C8_NoWaitingOnAnother ==
  \A b \in Clients :
     (cl[b] = "sent" /\ Queued(b)) => \A a \in handling : cl[a] \notin {"open", "stalled"}

(***************************************************************************)
(* C9                                                                      *)
(***************************************************************************)
\* C9: after a request has failed, the server never ends up unable to
\* answer a request that a client has sent: it is not held for ever by a
\* connection whose client will never send.
C9_ServesAfterFailure ==
  \A b \in Clients :
     (failed /\ pc = "serving" /\ cl[b] = "sent") => \A a \in handling : cl[a] # "stalled"

\* Parts of C9 that do not depend on progress: a bind failure ends the
\* program before any connection exists; a failed request leaves the server
\* in its loop, and a connection that was handled is not handled again.
C9_FailuresNotFatal ==
  /\ pc = "exited" => (backlog = <<>> /\ handling = {} /\ outcome = "none" /\ ~portFree)
  /\ failed => pc = "serving"
  /\ \A c \in Clients : cl[c] = "idle" => (c \notin handling /\ ~Queued(c))
  /\ \A c \in handling : ~Queued(c)

====
